---------------------------- MODULE Spec2Model ----------------------------
(***************************************************************************)
(* A model of pmp/algorithms/SurfaceNormals.cpp: the per-vertex, per-face  *)
(* and per-corner normals of a halfedge mesh, and the two batch drivers.   *)
(*                                                                         *)
(* Arithmetic.  Vertex positions are integer points, so differences, dot   *)
(* and cross products are exact.  A unit vector v/|v| is represented by    *)
(* the primitive integer vector of the same direction (v divided by the    *)
(* gcd of its components); a norm sqrt(q) is represented by its square q;  *)
(* an angle acos(c) by the sign and the reduced square of its cosine.  A   *)
(* weighted sum of unit vectors is kept as the list of its terms.  The one *)
(* place where floating point rounding decides a branch, the quotient      *)
(* dot(p1,p2)/denom landing an ulp outside [-1,1], is a nondeterministic   *)
(* input (Rounding).                                                       *)
(***************************************************************************)
EXTENDS Integers, Sequences, FiniteSets, TLC

(***************************************************************************)
(* Bounds of the model.                                                    *)
(***************************************************************************)
\* the moved vertex of a mesh is placed on the lattice (0..MaxCoord)^3
MaxCoord == 2
\* the start halfedge of every face / vertex is its rot-th one, rot in 0..MaxRot
MaxRot == 2
\* how many times a batch driver is run in one behaviour
MaxRuns == 2
\* fuel of the do-while loops (a ring or a face of the model has fewer elements)
MaxSteps == 8

(***************************************************************************)
(* Points and vectors (pmp::Point, pmp::Normal).                           *)
(***************************************************************************)
Zero3 == <<0, 0, 0>>

Abs(x) == IF x < 0 THEN -x ELSE x

Sign(x) == IF x < 0 THEN -1 ELSE IF x > 0 THEN 1 ELSE 0

RECURSIVE Gcd(_, _)
Gcd(a, b) == IF b = 0 THEN a ELSE Gcd(b, a % b)

sub(a, b) == <<a[1] - b[1], a[2] - b[2], a[3] - b[3]>>

add(a, b) == <<a[1] + b[1], a[2] + b[2], a[3] + b[3]>>

neg(a) == <<-a[1], -a[2], -a[3]>>

dot(a, b) == a[1] * b[1] + a[2] * b[2] + a[3] * b[3]

cross(a, b) ==
    <<a[2] * b[3] - a[3] * b[2],
      a[3] * b[1] - a[1] * b[3],
      a[1] * b[2] - a[2] * b[1]>>

\* v / norm(v), or the zero vector when norm(v) is not above the smallest
\* positive Scalar: the primitive integer vector of v's direction
normalize(v) ==
    IF dot(v, v) = 0 THEN Zero3
    ELSE LET g == Gcd(Gcd(Abs(v[1]), Abs(v[2])), Abs(v[3]))
         IN  <<Sign(v[1]) * (Abs(v[1]) \div g),
               Sign(v[2]) * (Abs(v[2]) \div g),
               Sign(v[3]) * (Abs(v[3]) \div g)>>

\* the guard written with >= instead of >
ExceedsOrEqualsMin(sq) == sq >= 0

\* sqrt(sq) > std::numeric_limits<Scalar>::min(), for an integer sq: every
\* positive integer has a root of at least 1, far above the smallest Scalar
ExceedsMin(sq) == sq > 0

(***************************************************************************)
(* The halfedge mesh (pmp::SurfaceMesh), read only.  A halfedge is the     *)
(* pair <<from, to>> of its end vertices; vertices and faces are numbered  *)
(* from 1.                                                                 *)
(***************************************************************************)
InvalidFace == -1

InvalidHalfedge == <<-1, -1>>

\* the vertex after position i of a face (cyclically)
Succ(fv, i) == fv[(i % Len(fv)) + 1]

FaceHalfedges(fv) == { <<fv[i], Succ(fv, i)>> : i \in 1..Len(fv) }

\* the k-th (from 0) element of a finite set of halfedges ordered by to-vertex
Nth(S, k) == CHOOSE h \in S : Cardinality({g \in S : g[2] < h[2]}) = k % Cardinality(S)

\* the connectivity SurfaceMesh::add_face builds from the faces' vertex lists
BuildMesh(nv, faces, points, rot) ==
    LET inner == UNION { FaceHalfedges(faces[f]) : f \in 1..Len(faces) }
        all == inner \cup { <<h[2], h[1]>> : h \in inner }
        bnd == all \ inner
        fc == [h \in all |->
                 IF h \in inner
                 THEN CHOOSE f \in 1..Len(faces) : h \in FaceHalfedges(faces[f])
                 ELSE InvalidFace]
        nxt == [h \in all |->
                 IF h \in inner
                 THEN LET fv == faces[fc[h]]
                          i == CHOOSE i \in 1..Len(fv) : fv[i] = h[1] /\ Succ(fv, i) = h[2]
                      IN  <<h[2], Succ(fv, i + 1)>>
                 ELSE CHOOSE g \in bnd : g[1] = h[2]]
    IN  [nv |-> nv,
         faces |-> faces,
         halfedges |-> all,
         fconn |-> fc,
         next |-> nxt,
         prev |-> [h \in all |-> CHOOSE g \in all : nxt[g] = h],
         \* a boundary vertex's outgoing halfedge is a boundary halfedge
         vconn |-> [v \in 1..nv |->
                      LET out == {h \in all : h[1] = v}
                      IN  IF out = {} THEN InvalidHalfedge
                          ELSE IF out \cap bnd # {} THEN Nth(out \cap bnd, 0)
                          ELSE Nth(out, rot)],
         fhalfedge |-> [f \in 1..Len(faces) |->
                      LET fv == faces[f]
                      IN  <<fv[(rot % Len(fv)) + 1], Succ(fv, (rot % Len(fv)) + 1)>>],
         vpoint |-> points]

to_vertex(M, h) == h[2]

opposite_halfedge(M, h) == <<h[2], h[1]>>

from_vertex(M, h) == to_vertex(M, opposite_halfedge(M, h))

next_halfedge(M, h) == M.next[h]

prev_halfedge(M, h) == M.prev[h]

face(M, h) == M.fconn[h]

is_boundary(M, h) == face(M, h) = InvalidFace

cw_rotated_halfedge(M, h) == next_halfedge(M, opposite_halfedge(M, h))

Vertices(M) == 1..M.nv

Faces(M) == 1..Len(M.faces)

\* the number of edges at a vertex
valence(M, v) == Cardinality({h \in M.halfedges : h[1] = v})

(***************************************************************************)
(* The meshes of the model.                                                *)
(***************************************************************************)
\* the cube [0,2]^3: vertex 1 + bx + 2 by + 4 bz sits at (2 bx, 2 by, 2 bz)
CubePoints ==
    [i \in 1..8 |-> <<2 * ((i - 1) % 2), 2 * (((i - 1) \div 2) % 2), 2 * ((i - 1) \div 4)>>]

CubeFaces ==
    << <<1, 3, 4, 2>>, <<5, 6, 8, 7>>, <<1, 2, 6, 5>>,
       <<3, 7, 8, 4>>, <<1, 5, 7, 3>>, <<2, 4, 8, 6>> >>

BaseMesh(name) ==
    CASE name = "cube" ->
           [nv |-> 8, faces |-> CubeFaces, points |-> CubePoints, movable |-> {}]
      [] name = "tetra" ->
           [nv |-> 4,
            faces |-> << <<1, 3, 2>>, <<1, 2, 4>>, <<2, 3, 4>>, <<1, 4, 3>> >>,
            points |-> << <<0, 0, 0>>, <<2, 0, 0>>, <<0, 2, 0>>, <<0, 0, 2>> >>,
            movable |-> {2}]
      [] name = "fan" ->
           \* an open fan around vertex 1: three triangles whose normals turn
           \* gradually and the zero-area triangle 1, 5, 7; vertex 6 is isolated
           [nv |-> 7,
            faces |-> << <<1, 2, 3>>, <<1, 3, 4>>, <<1, 4, 5>>, <<1, 5, 7>> >>,
            points |-> << <<0, 0, 0>>, <<2, 0, 0>>, <<0, 2, 0>>,
                          <<-2, 0, 2>>, <<2, -2, 2>>, <<1, 1, 1>>,
                          <<4, -4, 4>> >>,
            movable |-> {3}]
      [] name = "pyramid" ->
           [nv |-> 5,
            faces |-> << <<1, 4, 3, 2>>, <<1, 2, 5>>, <<2, 3, 5>>,
                         <<3, 4, 5>>, <<4, 1, 5>> >>,
            points |-> << <<0, 0, 0>>, <<2, 0, 0>>, <<2, 2, 0>>,
                          <<0, 2, 0>>, <<1, 1, 2>> >>,
            movable |-> {5}]
      [] name = "quad" ->
           [nv |-> 4,
            faces |-> << <<1, 2, 3, 4>> >>,
            points |-> << <<0, 0, 0>>, <<2, 0, 0>>, <<2, 2, 0>>, <<0, 2, 0>> >>,
            movable |-> {3}]
      [] name = "pentagon" ->
           [nv |-> 5,
            faces |-> << <<1, 2, 3, 4, 5>> >>,
            points |-> << <<0, 0, 0>>, <<1, 0, 0>>, <<2, 1, 0>>,
                          <<2, 2, 0>>, <<0, 2, 0>> >>,
            movable |-> {4}]
      [] name = "dart" ->
           \* a planar, simple, counter-clockwise pentagon with one reflex corner
           [nv |-> 5,
            faces |-> << <<1, 2, 3, 4, 5>> >>,
            points |-> << <<0, 0, 0>>, <<1, 3, 0>>, <<4, 0, 0>>,
                          <<2, 3, 0>>, <<1, 4, 0>> >>,
            movable |-> {}]

MeshNames == {"cube", "tetra", "fan", "pyramid", "quad", "pentagon", "dart"}

Box == { <<x, y, z>> : x \in 0..MaxCoord, y \in 0..MaxCoord, z \in 0..MaxCoord }

(***************************************************************************)
(* Values returned by the three routines.  n is the returned normal: v is  *)
(* its direction and sum is empty, or, when the weighted sum has no        *)
(* rational direction, v is zero and sum holds the terms of the sum that   *)
(* was normalized.  The other fields record what the call did.             *)
(***************************************************************************)
Dir(v) == [v |-> v, sum |-> {}]

NoCall ==
    [fn |-> "none", n |-> Dir(Zero3), path |-> "none", acc |-> Zero3,
     windows |-> <<>>, steps |-> <<>>, nn |-> <<>>, divs |-> <<>>,
     acosArgs |-> <<>>, terminated |-> TRUE, center |-> 0, nf |-> Zero3,
     undefined |-> FALSE]

\* what reading the connectivity of an invalid handle can produce: anything
UndefinedOutcomes ==
    { [n |-> Dir(v), crashed |-> c] :
        v \in {Zero3, <<1, 0, 0>>, <<0, -1, 0>>}, c \in BOOLEAN }

\* the outcome handed to a call that reads valid handles only (never used)
Defined == [n |-> Dir(Zero3), crashed |-> FALSE]

(***************************************************************************)
(* compute_face_normal                                                     *)
(***************************************************************************)
\* the do-while loop of the general polygon: w holds the vertices the window
\* p0, p1, p2 was read from
RECURSIVE FaceLoop(_, _, _, _, _, _, _)
FaceLoop(M, h, hend, w, n, windows, fuel) ==
    LET p0 == M.vpoint[w[1]]
        p1 == M.vpoint[w[2]]
        p2 == M.vpoint[w[3]]
        n2 == add(n, cross(sub(p2, p1), sub(p0, p1)))
        h2 == next_halfedge(M, h)
        w2 == <<w[2], w[3], to_vertex(M, h2)>>
        windows2 == Append(windows, w)
    IN  IF h2 = hend
        THEN [acc |-> n2, windows |-> windows2, terminated |-> TRUE]
        ELSE IF fuel <= 1
        THEN [acc |-> n2, windows |-> windows2, terminated |-> FALSE]
        ELSE FaceLoop(M, h2, hend, w2, n2, windows2, fuel - 1)

\* the operands of the triangle's cross product exchanged
compute_face_normal_swapped(M, f, u) ==
    IF f = InvalidFace
    THEN \* mesh.halfedge(f) indexes the connectivity with an invalid handle
         [NoCall EXCEPT !.fn = "face", !.n = u.n, !.path = "undefined",
                        !.terminated = ~u.crashed, !.undefined = TRUE]
    ELSE
    LET h0 == M.fhalfedge[f]
        hend == h0
        v0 == to_vertex(M, h0)
        h1 == next_halfedge(M, h0)
        v1 == to_vertex(M, h1)
        h2 == next_halfedge(M, h1)
        v2 == to_vertex(M, h2)
        p0 == M.vpoint[v0]
        p1 == M.vpoint[v1]
        p2 == M.vpoint[v2]
    IN  IF next_halfedge(M, h2) = hend
        THEN LET c == cross(sub(p0, p1), sub(p2, p1))
             IN  [NoCall EXCEPT !.fn = "face", !.n = Dir(normalize(c)),
                                !.path = "triangle", !.acc = c,
                                !.windows = << <<v0, v1, v2>> >>]
        ELSE LET r == FaceLoop(M, h2, h2, <<v0, v1, v2>>, Zero3, <<>>, MaxSteps)
             IN  [NoCall EXCEPT !.fn = "face", !.n = Dir(normalize(r.acc)),
                                !.path = "polygon", !.acc = r.acc,
                                !.windows = r.windows,
                                !.terminated = r.terminated]

\* the general polygon without its "hend = h": the loop ends at the start halfedge
compute_face_normal_no_hend(M, f, u) ==
    IF f = InvalidFace
    THEN \* mesh.halfedge(f) indexes the connectivity with an invalid handle
         [NoCall EXCEPT !.fn = "face", !.n = u.n, !.path = "undefined",
                        !.terminated = ~u.crashed, !.undefined = TRUE]
    ELSE
    LET h0 == M.fhalfedge[f]
        hend == h0
        v0 == to_vertex(M, h0)
        h1 == next_halfedge(M, h0)
        v1 == to_vertex(M, h1)
        h2 == next_halfedge(M, h1)
        v2 == to_vertex(M, h2)
        p0 == M.vpoint[v0]
        p1 == M.vpoint[v1]
        p2 == M.vpoint[v2]
    IN  IF next_halfedge(M, h2) = hend
        THEN LET c == cross(sub(p2, p1), sub(p0, p1))
             IN  [NoCall EXCEPT !.fn = "face", !.n = Dir(normalize(c)),
                                !.path = "triangle", !.acc = c,
                                !.windows = << <<v0, v1, v2>> >>]
        ELSE LET r == FaceLoop(M, h2, hend, <<v0, v1, v2>>, Zero3, <<>>, MaxSteps)
             IN  [NoCall EXCEPT !.fn = "face", !.n = Dir(normalize(r.acc)),
                                !.path = "polygon", !.acc = r.acc,
                                !.windows = r.windows,
                                !.terminated = r.terminated]

compute_face_normal(M, f, u) ==
    IF f = InvalidFace
    THEN \* mesh.halfedge(f) indexes the connectivity with an invalid handle
         [NoCall EXCEPT !.fn = "face", !.n = u.n, !.path = "undefined",
                        !.terminated = ~u.crashed, !.undefined = TRUE]
    ELSE
    LET h0 == M.fhalfedge[f]
        hend == h0
        v0 == to_vertex(M, h0)
        h1 == next_halfedge(M, h0)
        v1 == to_vertex(M, h1)
        h2 == next_halfedge(M, h1)
        v2 == to_vertex(M, h2)
        p0 == M.vpoint[v0]
        p1 == M.vpoint[v1]
        p2 == M.vpoint[v2]
    IN  IF next_halfedge(M, h2) = hend
        THEN LET c == cross(sub(p2, p1), sub(p0, p1))
             IN  [NoCall EXCEPT !.fn = "face", !.n = Dir(normalize(c)),
                                !.path = "triangle", !.acc = c,
                                !.windows = << <<v0, v1, v2>> >>]
        ELSE LET r == FaceLoop(M, h2, h2, <<v0, v1, v2>>, Zero3, <<>>, MaxSteps)
             IN  [NoCall EXCEPT !.fn = "face", !.n = Dir(normalize(r.acc)),
                                !.path = "polygon", !.acc = r.acc,
                                !.windows = r.windows,
                                !.terminated = r.terminated]

(***************************************************************************)
(* Scalars of the angle computation.                                       *)
(***************************************************************************)
\* the outcome of rounding a quotient: an ulp below, exact, an ulp above
Rounding == {-1, 0, 1}

\* num / sqrt(denSq) rounded by e: the value s * sqrt(a / b) + e ulp; a
\* floating-point division by zero does not trap, it gives an infinity or
\* a NaN, kept here as a value with b = 0
quotient(num, denSq, e) ==
    IF denSq = 0 THEN [s |-> Sign(num), a |-> 1, b |-> 0, e |-> e]
    ELSE LET g == Gcd(num * num, denSq)
         IN  [s |-> Sign(num), a |-> (num * num) \div g, b |-> denSq \div g, e |-> e]

BelowMinusOne(c) == c.s = -1 /\ c.a = c.b /\ c.e = -1

AboveOne(c) == c.s = 1 /\ c.a = c.b /\ c.e = 1

\* if (cosine < -1.0) cosine = -1.0; else if (cosine > 1.0) cosine = 1.0;
clamp(c) ==
    IF BelowMinusOne(c) THEN [c EXCEPT !.e = 0]
    ELSE IF AboveOne(c) THEN [c EXCEPT !.e = 0]
    ELSE c

\* the angle acos(c), named by the sign and the square of its cosine
acos(c) == <<c.s, c.a, c.b>>

\* normalize(nn) of a sum nn of terms <<unit direction, angle>>, every angle
\* being strictly between 0 and pi
normalizeSum(nn) ==
    IF nn = <<>> THEN Dir(Zero3)
    ELSE LET terms == {nn[i] : i \in 1..Len(nn)}
             dirs == {t[1] : t \in terms}
             angs == {t[2] : t \in terms}
             sqs == {dot(d, d) : d \in dirs}
             RECURSIVE Total(_)
             Total(i) == IF i = 0 THEN Zero3 ELSE add(Total(i - 1), nn[i][1])
         IN  IF Cardinality(dirs) = 1
             THEN Dir(CHOOSE d \in dirs : TRUE)
             ELSE IF Cardinality(angs) = 1 /\ Cardinality(sqs) = 1
             THEN Dir(normalize(Total(Len(nn))))
             ELSE [v |-> Zero3,
                   sum |-> {<<t, Cardinality({i \in 1..Len(nn) : nn[i] = t})>> :
                              t \in terms}]

\* one visited halfedge of a ring walk: was it a boundary halfedge, did the
\* edge-length guard (g1) and the cross-product guard (g2) pass, was the
\* corner within the crease angle, was a term added, and how many terms the
\* sum holds after it
Visit(h, bnd, g1, g2, within, added, len) ==
    [h |-> h, bnd |-> bnd, g1 |-> g1, g2 |-> g2, within |-> within,
     added |-> added, len |-> len]

EmptyAcc == [nn |-> <<>>, steps |-> <<>>, divs |-> <<>>, acosArgs |-> <<>>]

(***************************************************************************)
(* compute_vertex_normal                                                   *)
(***************************************************************************)
\* the body of the do-while loop for halfedge h (lines 35-64)
VertexVisit(M, p0, h, acc, e) ==
    IF is_boundary(M, h)
    THEN [acc EXCEPT !.steps = Append(@, Visit(h, TRUE, FALSE, FALSE, TRUE, FALSE, Len(acc.nn)))]
    ELSE
    LET p1 == sub(M.vpoint[to_vertex(M, h)], p0)
        p2 == sub(M.vpoint[from_vertex(M, prev_halfedge(M, h))], p0)
        denomSq == dot(p1, p1) * dot(p2, p2)
    IN  IF ExceedsMin(denomSq)
        THEN LET cosine == clamp(quotient(dot(p1, p2), denomSq, e))
                 angle == acos(cosine)
                 n == cross(p1, p2)
                 normSq == dot(n, n)
                 acc1 == [acc EXCEPT !.divs = Append(@, denomSq),
                                     !.acosArgs = Append(@, cosine)]
             IN  IF ExceedsMin(normSq)
                 THEN [acc1 EXCEPT
                         !.divs = Append(@, normSq),
                         !.nn = Append(@, <<normalize(n), angle>>),
                         !.steps = Append(@, Visit(h, FALSE, TRUE, TRUE, TRUE, TRUE,
                                                   Len(acc.nn) + 1))]
                 ELSE [acc1 EXCEPT
                         !.steps = Append(@, Visit(h, FALSE, TRUE, FALSE, TRUE, FALSE,
                                                   Len(acc.nn)))]
        ELSE [acc EXCEPT
                !.steps = Append(@, Visit(h, FALSE, FALSE, FALSE, TRUE, FALSE,
                                          Len(acc.nn)))]

\* the walk advancing by next_halfedge: around the face instead of the vertex
RECURSIVE VertexLoopAroundFace(_, _, _, _, _, _, _)
VertexLoopAroundFace(M, p0, h, hend, acc, e, fuel) ==
    LET acc2 == VertexVisit(M, p0, h, acc, e)
        h2 == next_halfedge(M, h)
    IN  IF h2 = hend THEN [acc |-> acc2, terminated |-> TRUE]
        ELSE IF fuel <= 1 THEN [acc |-> acc2, terminated |-> FALSE]
        ELSE VertexLoopAroundFace(M, p0, h2, hend, acc2, e, fuel - 1)

RECURSIVE VertexLoop(_, _, _, _, _, _, _)
VertexLoop(M, p0, h, hend, acc, e, fuel) ==
    LET acc2 == VertexVisit(M, p0, h, acc, e)
        h2 == cw_rotated_halfedge(M, h)
    IN  IF h2 = hend THEN [acc |-> acc2, terminated |-> TRUE]
        ELSE IF fuel <= 1 THEN [acc |-> acc2, terminated |-> FALSE]
        ELSE VertexLoop(M, p0, h2, hend, acc2, e, fuel - 1)

compute_vertex_normal(M, v, e) ==
    LET h == M.vconn[v]
    IN  IF h # InvalidHalfedge
        THEN LET r == VertexLoop(M, M.vpoint[v], h, h, EmptyAcc, e, MaxSteps)
             IN  [NoCall EXCEPT !.fn = "vertex", !.n = normalizeSum(r.acc.nn),
                                !.path = "ring", !.steps = r.acc.steps,
                                !.nn = r.acc.nn, !.divs = r.acc.divs,
                                !.acosArgs = r.acc.acosArgs,
                                !.terminated = r.terminated, !.center = v]
        ELSE [NoCall EXCEPT !.fn = "vertex", !.path = "isolated", !.center = v]

(***************************************************************************)
(* compute_corner_normal                                                   *)
(***************************************************************************)
\* crease angles are counted in thousandths
TrivialFlat == 10

TrivialSmooth == 179000

MinCrease == 1

\* the crease angles of the model: 0, 0.005, 1, 2, 45, 100 and 180
CreaseAngles == {0, 5, 1000, 2000, 45000, 100000, 180000}

\* the denominator of the cosines below
CosScale == 100

\* cos(x) of the C library, x in radians, in hundredths, for the crease
\* angles that reach it
cos(a) ==
    CASE a = 1000 -> 54
      [] a = 2000 -> -42
      [] a = 45000 -> 53
      [] a = 100000 -> 86

\* dot(n, nf) >= cos_crease_angle for the unit vectors n and nf (nf may be zero)
WithinCrease(n, nf, c) ==
    LET d == dot(n, nf)
        q == dot(n, n) * dot(nf, nf)
    IN  IF q = 0 THEN 0 >= c
        ELSE IF c >= 0
        THEN d >= 0 /\ d * d * CosScale * CosScale >= c * c * q
        ELSE d >= 0 \/ d * d * CosScale * CosScale <= c * c * q

\* the body of the do-while loop for halfedge h (lines 151-185)
CornerVisit(M, p0, nf, c, h, acc, e) ==
    IF is_boundary(M, h)
    THEN [acc EXCEPT !.steps = Append(@, Visit(h, TRUE, FALSE, FALSE, FALSE, FALSE, Len(acc.nn)))]
    ELSE
    LET p1 == sub(M.vpoint[to_vertex(M, next_halfedge(M, h))], p0)
        p2 == sub(M.vpoint[from_vertex(M, h)], p0)
        n == cross(p1, p2)
        normSq == dot(n, n)
    IN  IF ExceedsMin(normSq)
        THEN LET unit == normalize(n)
                 acc1 == [acc EXCEPT !.divs = Append(@, normSq)]
             IN  IF WithinCrease(unit, nf, c)
                 THEN LET denomSq == dot(p1, p1) * dot(p2, p2)
                      IN  IF ExceedsMin(denomSq)
                          THEN LET cosine == clamp(quotient(dot(p1, p2), denomSq, e))
                                   angle == acos(cosine)
                               IN  [acc1 EXCEPT
                                      !.divs = Append(@, denomSq),
                                      !.acosArgs = Append(@, cosine),
                                      !.nn = Append(@, <<unit, angle>>),
                                      !.steps = Append(@, Visit(h, FALSE, TRUE, TRUE, TRUE,
                                                                TRUE, Len(acc.nn) + 1))]
                          ELSE [acc1 EXCEPT
                                  !.steps = Append(@, Visit(h, FALSE, FALSE, TRUE, TRUE,
                                                            FALSE, Len(acc.nn)))]
                 ELSE [acc1 EXCEPT
                         !.steps = Append(@, Visit(h, FALSE, FALSE, TRUE, FALSE, FALSE,
                                                   Len(acc.nn)))]
        ELSE [acc EXCEPT
                !.steps = Append(@, Visit(h, FALSE, FALSE, FALSE, FALSE, FALSE,
                                          Len(acc.nn)))]

\* the walk comparing each corner with the last accepted one (transitive
\* grouping) instead of the starting face
RECURSIVE CornerLoopTransitive(_, _, _, _, _, _, _, _, _)
CornerLoopTransitive(M, p0, nf, c, h, hend, acc, e, fuel) ==
    LET acc2 == CornerVisit(M, p0, nf, c, h, acc, e)
        nf2 == IF Len(acc2.nn) > Len(acc.nn) THEN acc2.nn[Len(acc2.nn)][1] ELSE nf
        h2 == opposite_halfedge(M, next_halfedge(M, h))
    IN  IF h2 = hend THEN [acc |-> acc2, terminated |-> TRUE]
        ELSE IF fuel <= 1 THEN [acc |-> acc2, terminated |-> FALSE]
        ELSE CornerLoopTransitive(M, p0, nf2, c, h2, hend, acc2, e, fuel - 1)

RECURSIVE CornerLoop(_, _, _, _, _, _, _, _, _)
CornerLoop(M, p0, nf, c, h, hend, acc, e, fuel) ==
    LET acc2 == CornerVisit(M, p0, nf, c, h, acc, e)
        h2 == opposite_halfedge(M, next_halfedge(M, h))
    IN  IF h2 = hend THEN [acc |-> acc2, terminated |-> TRUE]
        ELSE IF fuel <= 1 THEN [acc |-> acc2, terminated |-> FALSE]
        ELSE CornerLoop(M, p0, nf, c, h2, hend, acc2, e, fuel - 1)

compute_corner_normal(M, h, crease_angle, e, u) ==
    IF crease_angle < TrivialFlat
    THEN compute_face_normal(M, face(M, h), u)
    ELSE IF crease_angle > TrivialSmooth
    THEN compute_vertex_normal(M, from_vertex(M, h), e)
    ELSE
    LET a == IF crease_angle < MinCrease THEN MinCrease ELSE crease_angle
        cos_crease_angle == cos(a)
    IN  IF ~is_boundary(M, h)
        THEN LET v0 == to_vertex(M, h)
                 p0 == M.vpoint[v0]
                 p1 == sub(M.vpoint[to_vertex(M, next_halfedge(M, h))], p0)
                 p2 == sub(M.vpoint[from_vertex(M, h)], p0)
                 nf == normalize(cross(p1, p2))
                 r == CornerLoop(M, p0, nf, cos_crease_angle, h, h, EmptyAcc, e, MaxSteps)
             IN  [NoCall EXCEPT !.fn = "corner", !.n = normalizeSum(r.acc.nn),
                                !.path = "ring", !.steps = r.acc.steps,
                                !.nn = r.acc.nn, !.divs = r.acc.divs,
                                !.acosArgs = r.acc.acosArgs,
                                !.terminated = r.terminated, !.center = v0,
                                !.nf = nf]
        ELSE [NoCall EXCEPT !.fn = "corner", !.path = "boundary"]

(***************************************************************************)
(* The program state: the mesh with its "v:point" property, its "v:normal" *)
(* and "f:normal" properties (the empty sequence while the property does   *)
(* not exist), the call made on the mesh and what it returned, and the     *)
(* position of a running batch driver.                                     *)
(***************************************************************************)
VARIABLES shape, mesh, vnormal, fnormal, call, ret, pc, it, writes, runs, mesh0

vars == <<shape, mesh, vnormal, fnormal, call, ret, pc, it, writes, runs, mesh0>>

Call(op, v, f, h, a, e) == [op |-> op, v |-> v, f |-> f, h |-> h, a |-> a, e |-> e]

Init ==
    /\ \E name \in MeshNames, rot \in 0..MaxRot :
         LET b == BaseMesh(name)
         IN  \E mv \in b.movable \cup {0}, pos \in Box :
               /\ shape = [name |-> name, moved |-> mv]
               /\ mesh = BuildMesh(b.nv, b.faces,
                                   [v \in 1..b.nv |-> IF v = mv THEN pos ELSE b.points[v]],
                                   rot)
    /\ vnormal = <<>>
    /\ fnormal = <<>>
    /\ call = Call("none", 0, 0, InvalidHalfedge, 0, 0)
    /\ ret = NoCall
    /\ pc = "idle"
    /\ it = 0
    /\ writes = <<>>
    /\ runs = 0
    /\ mesh0 = mesh

Callable == pc = "idle" /\ call.op = "none" /\ runs = 0

CallVertexNormal ==
    /\ Callable
    /\ \E v \in Vertices(mesh), e \in Rounding :
         /\ call' = Call("vertex", v, 0, InvalidHalfedge, 0, e)
         /\ ret' = compute_vertex_normal(mesh, v, e)
    /\ UNCHANGED <<shape, mesh, vnormal, fnormal, pc, it, writes, runs, mesh0>>

CallFaceNormal ==
    /\ Callable
    /\ \E f \in Faces(mesh) :
         /\ call' = Call("face", 0, f, InvalidHalfedge, 0, 0)
         /\ ret' = compute_face_normal(mesh, f, Defined)
    /\ UNCHANGED <<shape, mesh, vnormal, fnormal, pc, it, writes, runs, mesh0>>

CallCornerNormal ==
    /\ Callable
    /\ \E h \in mesh.halfedges, a \in CreaseAngles, e \in Rounding :
         \E u \in IF face(mesh, h) = InvalidFace THEN UndefinedOutcomes ELSE {Defined} :
           /\ call' = Call("corner", 0, 0, h, a, e)
           /\ ret' = compute_corner_normal(mesh, h, a, e, u)
    /\ UNCHANGED <<shape, mesh, vnormal, fnormal, pc, it, writes, runs, mesh0>>

(***************************************************************************)
(* compute_vertex_normals and compute_face_normals, one loop iteration per *)
(* step.  The property is fetched, or added with default-constructed       *)
(* entries, before the loop.                                               *)
(***************************************************************************)
VertexNormalsBegin ==
    /\ pc = "idle" /\ call.op = "none" /\ runs < MaxRuns
    /\ vnormal' = IF vnormal = <<>> THEN [v \in Vertices(mesh) |-> Dir(Zero3)] ELSE vnormal
    /\ pc' = "vertex_normals"
    /\ it' = 1
    /\ writes' = [v \in Vertices(mesh) |-> 0]
    /\ mesh0' = mesh
    /\ UNCHANGED <<shape, mesh, fnormal, call, ret, runs>>

\* the loop body computing the normal of the first vertex for every slot
VertexNormalsStepFirst ==
    /\ pc = "vertex_normals" /\ it <= mesh.nv
    /\ \E e \in Rounding :
         vnormal' = [vnormal EXCEPT ![it] = compute_vertex_normal(mesh, 1, e).n]
    /\ writes' = [writes EXCEPT ![it] = @ + 1]
    /\ it' = it + 1
    /\ UNCHANGED <<shape, mesh, fnormal, call, ret, pc, runs, mesh0>>

VertexNormalsStep ==
    /\ pc = "vertex_normals" /\ it <= mesh.nv
    /\ \E e \in Rounding :
         vnormal' = [vnormal EXCEPT ![it] = compute_vertex_normal(mesh, it, e).n]
    /\ writes' = [writes EXCEPT ![it] = @ + 1]
    /\ it' = it + 1
    /\ UNCHANGED <<shape, mesh, fnormal, call, ret, pc, runs, mesh0>>

VertexNormalsEnd ==
    /\ pc = "vertex_normals" /\ it > mesh.nv
    /\ pc' = "vertex_normals_done"
    /\ runs' = runs + 1
    /\ UNCHANGED <<shape, mesh, vnormal, fnormal, call, ret, it, writes, mesh0>>

FaceNormalsBegin ==
    /\ pc = "idle" /\ call.op = "none" /\ runs < MaxRuns
    /\ fnormal' = IF fnormal = <<>> THEN [f \in Faces(mesh) |-> Dir(Zero3)] ELSE fnormal
    /\ pc' = "face_normals"
    /\ it' = 1
    /\ writes' = [f \in Faces(mesh) |-> 0]
    /\ mesh0' = mesh
    /\ UNCHANGED <<shape, mesh, vnormal, call, ret, runs>>

FaceNormalsStep ==
    /\ pc = "face_normals" /\ it <= Len(mesh.faces)
    /\ fnormal' = [fnormal EXCEPT ![it] = compute_face_normal(mesh, it, Defined).n]
    /\ writes' = [writes EXCEPT ![it] = @ + 1]
    /\ it' = it + 1
    /\ UNCHANGED <<shape, mesh, vnormal, call, ret, pc, runs, mesh0>>

FaceNormalsEnd ==
    /\ pc = "face_normals" /\ it > Len(mesh.faces)
    /\ pc' = "face_normals_done"
    /\ runs' = runs + 1
    /\ UNCHANGED <<shape, mesh, vnormal, fnormal, call, ret, it, writes, mesh0>>

\* the driver has returned; the caller goes on
Return ==
    /\ pc \in {"vertex_normals_done", "face_normals_done"}
    /\ pc' = "idle"
    /\ UNCHANGED <<shape, mesh, vnormal, fnormal, call, ret, it, writes, runs, mesh0>>

Next ==
    \/ CallVertexNormal
    \/ CallFaceNormal
    \/ CallCornerNormal
    \/ VertexNormalsBegin
    \/ VertexNormalsStep
    \/ VertexNormalsEnd
    \/ FaceNormalsBegin
    \/ FaceNormalsStep
    \/ FaceNormalsEnd
    \/ Return

Spec == Init /\ [][Next]_vars

(***************************************************************************)
(* Properties.                                                             *)
(***************************************************************************)
\* the crease angle takes the general case of compute_corner_normal
General(a) == a >= TrivialFlat /\ a <= TrivialSmooth

Position(v) == mesh.vpoint[v]

Sides(f) == Len(mesh.faces[f])

\* the mesh with face f starting at its k-th halfedge
Restart(M, f, k) ==
    LET fv == M.faces[f]
    IN  [M EXCEPT !.fhalfedge[f] = <<fv[(k % Len(fv)) + 1], Succ(fv, (k % Len(fv)) + 1)>>]

\* the mesh with the winding order of every face reversed
Reversed(M, rot) ==
    BuildMesh(M.nv,
              [f \in 1..Len(M.faces) |->
                 [i \in 1..Len(M.faces[f]) |-> M.faces[f][Len(M.faces[f]) + 1 - i]]],
              M.vpoint, rot)

\* the Newell normal (vector area) of face f: the sum of p_i x p_(i+1)
RECURSIVE NewellSum(_, _)
NewellSum(fv, i) ==
    IF i = 0 THEN Zero3
    ELSE add(NewellSum(fv, i - 1), cross(Position(fv[i]), Position(Succ(fv, i))))

Newell(f) == NewellSum(mesh.faces[f], Sides(f))

\* a = c * b for some real c > 0
PositiveMultiple(a, b) ==
    /\ cross(a, b) = Zero3
    /\ IF b = Zero3 THEN a = Zero3 ELSE dot(a, b) > 0

\* the halfedge visited by step i of the returned walk
Visited(i) == ret.steps[i].h

Walked == 1..Len(ret.steps)

\* how many terms the sum held before step i
LenBefore(i) == IF i = 1 THEN 0 ELSE ret.steps[i - 1].len

(* C1: on the cube, the corner normal at crease angle 45 is the face normal
   of the halfedge's face, and at crease angle 100 it is the fully smoothed
   vertex normal (the crease angle being in degrees). *)
C1_CubeCreaseDegrees ==
    (shape.name = "cube" /\ call.op = "corner") =>
        /\ call.a = 45000 =>
              ret.n = compute_face_normal(mesh, face(mesh, call.h), Defined).n
        /\ call.a = 100000 =>
              ret.n \in {compute_vertex_normal(mesh, from_vertex(mesh, call.h), 0).n,
                         compute_vertex_normal(mesh, to_vertex(mesh, call.h), 0).n}

(* C2: in the general case of compute_corner_normal the vertex circled is
   from_vertex(h), the vertex of the crease_angle > 179 shortcut: the centre
   p0 is its position and every visited halfedge is incident to it. *)
C2_CornerCentreIsOrigin ==
    (call.op = "corner" /\ General(call.a) /\ ~is_boundary(mesh, call.h)) =>
        /\ ret.center = from_vertex(mesh, call.h)
        /\ \A i \in Walked :
              from_vertex(mesh, call.h) \in {Visited(i)[1], Visited(i)[2]}

(* C3: for a boundary halfedge compute_corner_normal returns the zero vector
   whatever the crease angle, and never evaluates compute_face_normal on the
   invalid face. *)
C3_BoundaryCornerIsZero ==
    (call.op = "corner" /\ is_boundary(mesh, call.h)) =>
        /\ ret.n = Dir(Zero3)
        /\ ~ret.undefined

(* C4: when a batch driver returns, every slot holds the single-element
   routine's value on the mesh as it was before the call, every slot was
   written exactly once, the mesh is unchanged; this also holds of the
   second run, which therefore leaves the same values.  While the driver
   runs, the slots before the iterator are final and the others unwritten. *)
C4_BatchMatchesSingle ==
    /\ pc \in {"vertex_normals", "vertex_normals_done"} =>
          /\ mesh = mesh0
          /\ Len(vnormal) = mesh0.nv
          /\ \A v \in Vertices(mesh0) :
                IF v < it
                THEN /\ vnormal[v] = compute_vertex_normal(mesh0, v, 0).n
                     /\ writes[v] = 1
                ELSE writes[v] = 0
          /\ pc = "vertex_normals_done" => it = mesh0.nv + 1
    /\ pc \in {"face_normals", "face_normals_done"} =>
          /\ mesh = mesh0
          /\ Len(fnormal) = Len(mesh0.faces)
          /\ \A f \in Faces(mesh0) :
                IF f < it
                THEN /\ fnormal[f] = compute_face_normal(mesh0, f, Defined).n
                     /\ writes[f] = 1
                ELSE writes[f] = 0
          /\ pc = "face_normals_done" => it = Len(mesh0.faces) + 1

C4_SecondRunDone ==
    /\ pc = "vertex_normals_done"
    /\ runs = 2
    /\ \E v \in Vertices(mesh) : vnormal[v].v # Zero3

(* C5: the normal of a triangle with vertices A, B, C is the normalized
   (C-B) x (A-B), whichever halfedge the face starts at, and its negation
   when the winding order is reversed. *)
C5_TriangleNormal ==
    (call.op = "face" /\ Sides(call.f) = 3) =>
        LET fv == mesh.faces[call.f]
            A == Position(fv[1])
            B == Position(fv[2])
            C == Position(fv[3])
            N == normalize(cross(sub(C, B), sub(A, B)))
        IN  /\ ret.n = Dir(N)
            /\ \A k \in 0..2 :
                  /\ compute_face_normal(Restart(mesh, call.f, k), call.f, Defined).n = Dir(N)
                  /\ compute_face_normal(Reversed(mesh, k), call.f, Defined).n = Dir(neg(N))

C5_ProperTriangle ==
    /\ call.op = "face"
    /\ Sides(call.f) = 3
    /\ ret.n.v # Zero3
    /\ mesh.fhalfedge[call.f][1] # mesh.faces[call.f][1]

(* C6: for a face with four or more sides, the vector accumulated before
   normalization is a positive multiple of the face's Newell normal, for
   every placement of its vertices. *)
C6_PolygonIsNewell ==
    (call.op = "face" /\ Sides(call.f) >= 4) =>
        PositiveMultiple(ret.acc, Newell(call.f))

\* what does hold of the accumulated vector: for a quadrilateral it is twice
\* the Newell normal
QuadIsTwiceNewell ==
    (call.op = "face" /\ Sides(call.f) = 4) =>
        ret.acc = add(Newell(call.f), Newell(call.f))

(* C7: compute_face_normal terminates; a triangle takes the fast path with
   one cross product; a face with k # 3 sides runs the loop k times, over
   the k consecutive vertex triples of the face, each vertex being the
   middle of exactly one window. *)
C7_FaceWindows ==
    call.op = "face" =>
        LET fv == mesh.faces[call.f]
            k == Len(fv)
        IN  /\ ret.terminated
            /\ k = 3 => ret.path = "triangle" /\ Len(ret.windows) = 1
            /\ k # 3 =>
                  /\ ret.path = "polygon"
                  /\ Len(ret.windows) = k
                  /\ {ret.windows[i] : i \in 1..k}
                       = {<<fv[i], Succ(fv, i), Succ(fv, i + 1)>> : i \in 1..k}
                  /\ \A j \in 1..k :
                        Cardinality({i \in 1..k : ret.windows[i][2] = fv[j]}) = 1

C7_PentagonWalked ==
    /\ call.op = "face"
    /\ Sides(call.f) = 5
    /\ Len(ret.windows) = 5
    /\ mesh.fhalfedge[call.f][1] # mesh.faces[call.f][1]

(* C8: a ring walk returns to its start after exactly as many steps as the
   circled vertex has edges, visiting each halfedge of the ring once; each
   incident face contributes at most one term and a boundary halfedge
   none; an isolated vertex yields the zero vector without a walk. *)
C8_RingWalk ==
    /\ call.op = "vertex" =>
          IF mesh.vconn[call.v] = InvalidHalfedge
          THEN ret.n = Dir(Zero3) /\ ret.steps = <<>>
          ELSE /\ ret.terminated
               /\ Len(ret.steps) = valence(mesh, call.v)
               /\ {Visited(i) : i \in Walked} = {h \in mesh.halfedges : h[1] = call.v}
               /\ \A i \in Walked :
                     /\ ret.steps[i].len - LenBefore(i) \in {0, 1}
                     /\ is_boundary(mesh, Visited(i)) => ret.steps[i].len = LenBefore(i)
               /\ Len(ret.nn) = ret.steps[Len(ret.steps)].len
    /\ (call.op = "corner" /\ General(call.a) /\ ~is_boundary(mesh, call.h)) =>
          /\ ret.terminated
          /\ Len(ret.steps) = valence(mesh, to_vertex(mesh, call.h))
          /\ {Visited(i) : i \in Walked}
               = {h \in mesh.halfedges : h[2] = to_vertex(mesh, call.h)}
          /\ \A i \in Walked :
                /\ ret.steps[i].len - LenBefore(i) \in {0, 1}
                /\ is_boundary(mesh, Visited(i)) => ret.steps[i].len = LenBefore(i)
          /\ Len(ret.nn) = ret.steps[Len(ret.steps)].len

C8_BoundaryRingWalked ==
    /\ call.op = "vertex"
    /\ Len(ret.steps) = 5
    /\ \E i \in Walked : is_boundary(mesh, Visited(i))
    /\ Len(ret.nn) = 3

(* C9: every division is made with a denominator above the smallest
   positive Scalar, every argument of acos lies in [-1, 1], and a corner
   that fails the edge-length guard or the cross-product guard adds nothing
   to the sum. *)
C9_GuardedArithmetic ==
    call.op \in {"vertex", "corner"} =>
        /\ \A i \in 1..Len(ret.divs) : ret.divs[i] > 0
        /\ \A i \in 1..Len(ret.acosArgs) :
              LET c == ret.acosArgs[i]
              IN  c.a <= c.b /\ ~(c.a = c.b /\ c.e # 0 /\ c.e = c.s)
        /\ \A i \in Walked :
              (~ret.steps[i].g1 \/ ~ret.steps[i].g2) => ret.steps[i].len = LenBefore(i)
        /\ Len(ret.nn) = IF ret.steps = <<>> THEN 0 ELSE ret.steps[Len(ret.steps)].len

\* coincident points, a zero-area corner whose cosine rounds above 1, and a
\* proper corner in one walk
C9_DegenerateCorners ==
    /\ call.op = "vertex"
    /\ call.e = 1
    /\ \E i \in Walked : ~ret.steps[i].bnd /\ ~ret.steps[i].g1
    /\ \E i \in Walked : ret.steps[i].g1 /\ ~ret.steps[i].g2
    /\ \E i \in 1..Len(ret.acosArgs) :
          ret.acosArgs[i].a = ret.acosArgs[i].b /\ ret.acosArgs[i].s = 1

(* C10: in the general case of compute_corner_normal a proper face corner
   of the ring contributes exactly when its own unit normal is within the
   crease angle of the normal nf of the starting halfedge's face, whatever
   was visited or accepted before it; nf is the one computed before the
   walk. *)
C10_AnchorOnly ==
    (call.op = "corner" /\ General(call.a) /\ ~is_boundary(mesh, call.h)) =>
        LET p0 == Position(to_vertex(mesh, call.h))
            Corner(h) == cross(sub(Position(to_vertex(mesh, next_halfedge(mesh, h))), p0),
                               sub(Position(from_vertex(mesh, h)), p0))
            nf == normalize(Corner(call.h))
        IN  /\ ret.nf = nf
            /\ \A i \in Walked :
                  (~is_boundary(mesh, Visited(i)) /\ Corner(Visited(i)) # Zero3) =>
                     (ret.steps[i].added
                        <=> WithinCrease(normalize(Corner(Visited(i))), nf, cos(call.a)))

\* a walk that accepts a face after having rejected one, and in which an
\* accepted face is within the crease angle of the rejected one
C10_GradualBend ==
    /\ call.op = "corner" /\ General(call.a) /\ ~is_boundary(mesh, call.h)
    /\ \E i, j, k \in Walked :
          /\ i < j /\ j < k
          /\ ret.steps[i].added /\ ret.steps[j].added
          /\ ret.steps[k].g2 /\ ~ret.steps[k].added
          /\ LET p0 == Position(to_vertex(mesh, call.h))
                 Corner(h) == cross(sub(Position(to_vertex(mesh, next_halfedge(mesh, h))), p0),
                                    sub(Position(from_vertex(mesh, h)), p0))
             IN  WithinCrease(normalize(Corner(Visited(k))),
                              normalize(Corner(Visited(j))), cos(call.a))

=============================================================================
